---- MODULE Spec2Model ----
(***************************************************************************)
(* svannotate (src/svdistil/svannotate.py): annotate structural variants   *)
(* with the genes, grouped by tier, whose padded intervals overlap the     *)
(* variant's breakends.                                                    *)
(*                                                                         *)
(* The run is main(): parse_args, read_annotations (one step per row of    *)
(* the annotation file), then annotate_variants (the header, then one step *)
(* per row of the variant file).  Text of the input files is kept as       *)
(* strings; int() and str() are the decimal conversions.  A line printed   *)
(* on stdout is kept as the list of columns handed to "\t".join.           *)
(***************************************************************************)
EXTENDS Integers, Sequences, FiniteSets, TLC

\* ------------------------------------------------------------------ bounds
\* the number of rows read from the annotation file and from the variant file
MaxAnn == 2
MaxVar == 2

\* ------------------------------------------------------- text conversions
Digit(d) == <<"0", "1", "2", "3", "4", "5", "6", "7", "8", "9">>[d + 1]

RECURSIVE Str(_)
\* str(n): the decimal rendering of an integer
Str(n) ==
    IF n < 0 THEN "-" \o Str(-n)
    ELSE IF n < 10 THEN Digit(n)
    ELSE Str(n \div 10) \o Digit(n % 10)

\* the integers whose decimal text int() meets in the input files below
IntRange == (0 - 9) .. 9

\* the texts int() reads, and the integer it reads from each
IntTexts == {Str(n) : n \in IntRange}

IntOf == [s \in IntTexts |-> CHOOSE n \in IntRange : Str(n) = s]

\* int(s) raises ValueError unless s is the decimal text of an integer
IsIntText(s) == s \in IntTexts

ParseInt(s) == IntOf[s]

\* ----------------------------------------------------------------- inputs
\* --pad and --window: argparse's type=int takes any integer
Argvs ==
    [pad : {0, 1}, window : {3, 4}]
    \cup {[pad |-> 0 - 1, window |-> 3], [pad |-> 0, window |-> 0 - 2]}

Chroms == {"chr1", "chr2"}

\* gene names, listed in the order Python's string comparison gives them
GeneOrder == <<"BRCA1", "TP53">>

Genes == {GeneOrder[i] : i \in 1..Len(GeneOrder)}

\* the rows csv.DictReader may yield from the annotation file: two genes of
\* tier 1 on the same stretch of chr1, a gene of tier 8 with start = end, a
\* gene on chr2, a second, wider stretch of TP53, and a row with each
\* numeric field in turn unreadable
AnnRows ==
    [chrom : {"chr1"}, start : {"1"}, end : {"2"}, gene : Genes, tier : {"1"}]
    \cup {[chrom |-> "chr1", start |-> "2", end |-> "2", gene |-> "TP53", tier |-> "8"],
          [chrom |-> "chr2", start |-> "0", end |-> "1", gene |-> "BRCA1", tier |-> "8"],
          [chrom |-> "chr1", start |-> "0", end |-> "3", gene |-> "TP53", tier |-> "1"],
          [chrom |-> "chr1", start |-> "1", end |-> "2", gene |-> "TP53", tier |-> "x"],
          [chrom |-> "chr1", start |-> "x", end |-> "2", gene |-> "TP53", tier |-> "1"],
          [chrom |-> "chr1", start |-> "1", end |-> "x", gene |-> "TP53", tier |-> "1"]}

\* the header line of the variant file
VariantFieldnames == <<"chr1", "pos1", "chr2", "pos2", "id">>

\* the pos1, pos2 texts of a variant row
PosPairs == {<<"0", "0">>, <<"1", "2">>, <<"2", "1">>, <<"2", "2">>,
             <<"x", "1">>, <<"1", "x">>}

\* the rows csv.DictReader may yield from the variant file
VariantRows ==
    {[chr1 |-> "chr1", pos1 |-> p[1], chr2 |-> c, pos2 |-> p[2], id |-> "sv"] :
        p \in PosPairs, c \in Chroms}

\* ------------------------------------------------------------------ state
VARIABLES
    pc,             \* where main() is
    error,          \* the exception that ended the run, or "none"
    options,        \* what parse_args returned
    tiers,          \* read_annotations: the set of tiers
    chroms,         \* AnnIntervals.chroms: chromosome -> IntervalTree
    annRows,        \* the annotation rows the reader has yielded so far
    half_window,    \* annotate_variants: window // 2
    sorted_tiers,   \* annotate_variants: sorted(tiers)
    variants,       \* the variant rows the reader has yielded so far
    intersections,  \* annotate_variants: what the last row's lookups gave
    stdout          \* the lines printed so far

vars == <<pc, error, options, tiers, chroms, annRows, half_window,
          sorted_tiers, variants, intersections, stdout>>

\* ----------------------------------------------------------- IntervalTree
\* Interval(begin, end, data): half-open [begin, end)
Interval(begin, end, data) == [begin |-> begin, end |-> end, data |-> data]

\* Interval.is_null: IntervalTree refuses such an interval with ValueError
IsNull(begin, end) == begin >= end

\* tree[begin:end]: the intervals of the tree overlapping [begin, end)
TreeOverlap(tree, begin, end) ==
    IF begin >= end THEN {}
    ELSE {iv \in tree : iv.begin < end /\ iv.end > begin}

\* AnnIntervals.add, first half: the chromosome gets a tree
WithTree(ch, chrom) ==
    IF chrom \in DOMAIN ch THEN ch
    ELSE [c \in DOMAIN ch \cup {chrom} |-> IF c = chrom THEN {} ELSE ch[c]]

\* AnnIntervals.add, second half: tree[start:end] = val
AnnAdd(ch, chrom, start, end, val) ==
    [c \in DOMAIN WithTree(ch, chrom) |->
        IF c = chrom THEN WithTree(ch, chrom)[c] \cup {Interval(start, end, val)}
        ELSE WithTree(ch, chrom)[c]]

\* a lookup that leaves out the + 1, the query's end excluded
LookupEndExcluded(ch, chrom, start, end) ==
    IF chrom \in DOMAIN ch THEN TreeOverlap(ch[chrom], start, end)
    ELSE {}

\* AnnIntervals.lookup
Lookup(ch, chrom, start, end) ==
    IF chrom \in DOMAIN ch THEN TreeOverlap(ch[chrom], start, end + 1)
    ELSE {}

\* a lookup that gives an unknown chromosome an empty tree (setdefault)
ChromsAfterLookupSetdefault(ch, chrom) == WithTree(ch, chrom)

\* AnnIntervals.lookup only reads self.chroms: the index it leaves
ChromsAfterLookup(ch, chrom) == ch

\* ------------------------------------------------------------ Python sets
\* Iteration order of a set of small non-negative ints in CPython: by slot
\* of the hash table, hash(t) = t, slot = t mod 8 while the set has fewer
\* than five members and no two of them share a slot.
RECURSIVE SetIterOrder(_)
SetIterOrder(S) ==
    IF S = {} THEN <<>>
    ELSE LET t == CHOOSE u \in S : \A v \in S : u % 8 <= v % 8
         IN  <<t>> \o SetIterOrder(S \ {t})

RECURSIVE Sorted(_)
\* sorted(S) for a set of integers
Sorted(S) ==
    IF S = {} THEN <<>>
    ELSE LET t == CHOOSE u \in S : \A v \in S : u <= v
         IN  <<t>> \o Sorted(S \ {t})

GeneRank(g) == CHOOSE i \in 1..Len(GeneOrder) : GeneOrder[i] = g

RECURSIVE GenesUnsorted(_)
\* the genes of a set listed without sorting, here in descending order
GenesUnsorted(S) ==
    IF S = {} THEN <<>>
    ELSE LET g == CHOOSE u \in S : \A v \in S : GeneRank(u) >= GeneRank(v)
         IN  <<g>> \o GenesUnsorted(S \ {g})

RECURSIVE SortedGenes(_)
\* sorted(S) for a set of gene names
SortedGenes(S) ==
    IF S = {} THEN <<>>
    ELSE LET g == CHOOSE u \in S : \A v \in S : GeneRank(u) <= GeneRank(v)
         IN  <<g>> \o SortedGenes(S \ {g})

RECURSIVE Join(_, _)
\* sep.join(seq)
Join(sep, seq) ==
    IF seq = <<>> THEN ""
    ELSE IF Len(seq) = 1 THEN seq[1]
    ELSE seq[1] \o sep \o Join(sep, Tail(seq))

RECURSIVE Flatten(_)
\* [x for l in lists for x in l]
Flatten(lists) ==
    IF lists = <<>> THEN <<>> ELSE Head(lists) \o Flatten(Tail(lists))

\* ------------------------------------------------------------- the program
Init ==
    /\ pc = "parse_args"
    /\ error = "none"
    /\ options = [pad |-> 0, window |-> 0]
    /\ tiers = {}
    /\ chroms = <<>>
    /\ annRows = <<>>
    /\ half_window = 0
    /\ sorted_tiers = <<>>
    /\ variants = <<>>
    /\ intersections = {}
    /\ stdout = <<>>

\* parse_args: --pad and --window are any integers
ParseArgs ==
    /\ pc = "parse_args"
    /\ \E argv \in Argvs : options' = argv
    /\ pc' = "read_annotations"
    /\ UNCHANGED <<error, tiers, chroms, annRows, half_window, sorted_tiers,
                   variants, intersections, stdout>>

\* a loop body that skips a row with an unreadable field and goes on
AnnStepSkipMalformed(pad, ts, ch, row) ==
    IF ~IsIntText(row.tier) \/ ~IsIntText(row.start) \/ ~IsIntText(row.end)
    THEN [tiers |-> ts, chroms |-> ch, raised |-> FALSE]
    ELSE LET this_tier == ParseInt(row.tier)
             this_start == ParseInt(row.start) - pad
             this_end == ParseInt(row.end) + pad
         IN  IF IsNull(this_start, this_end)
             THEN [tiers |-> ts \cup {this_tier},
                   chroms |-> WithTree(ch, row.chrom), raised |-> TRUE]
             ELSE [tiers |-> ts \cup {this_tier},
                   chroms |-> AnnAdd(ch, row.chrom, this_start, this_end,
                                     <<row.gene, this_tier>>),
                   raised |-> FALSE]

\* the state of tiers and the index after one pass of the loop body of
\* read_annotations over row, and whether the pass raised
AnnStep(pad, ts, ch, row) ==
    IF ~IsIntText(row.tier)
    THEN [tiers |-> ts, chroms |-> ch, raised |-> TRUE]
    ELSE LET this_tier == ParseInt(row.tier)
             ts1 == ts \cup {this_tier}
             val == <<row.gene, this_tier>>
         IN  IF ~IsIntText(row.start) \/ ~IsIntText(row.end)
             THEN [tiers |-> ts1, chroms |-> ch, raised |-> TRUE]
             ELSE LET this_start == ParseInt(row.start) - pad
                      this_end == ParseInt(row.end) + pad
                  IN  IF IsNull(this_start, this_end)
                      THEN [tiers |-> ts1,
                            chroms |-> WithTree(ch, row.chrom),
                            raised |-> TRUE]
                      ELSE [tiers |-> ts1,
                            chroms |-> AnnAdd(ch, row.chrom, this_start,
                                              this_end, val),
                            raised |-> FALSE]

\* read_annotations: the reader yields one more row
ReadAnnotationRow ==
    /\ pc = "read_annotations"
    /\ Len(annRows) < MaxAnn
    /\ \E row \in AnnRows :
         LET r == AnnStep(options.pad, tiers, chroms, row)
         IN  /\ annRows' = Append(annRows, row)
             /\ tiers' = r.tiers
             /\ chroms' = r.chroms
             /\ pc' = IF r.raised THEN "failed" ELSE "read_annotations"
             /\ error' = IF r.raised THEN "ValueError" ELSE error
    /\ UNCHANGED <<options, half_window, sorted_tiers, variants,
                   intersections, stdout>>

\* read_annotations: the annotation file is exhausted
AnnotationsEOF ==
    /\ pc = "read_annotations"
    /\ pc' = "annotate_variants"
    /\ UNCHANGED <<error, options, tiers, chroms, annRows, half_window,
                   sorted_tiers, variants, intersections, stdout>>

\* the tier columns of the header
TierHeaders(ts) ==
    Flatten([k \in 1..Len(SetIterOrder(ts)) |->
        <<"tier" \o Str(SetIterOrder(ts)[k]),
          "tier" \o Str(SetIterOrder(ts)[k]) \o " genes">>])

\* annotate_variants, up to the loop: the header is printed
PrintHeader ==
    /\ pc = "annotate_variants"
    /\ half_window' = options.window \div 2
    /\ sorted_tiers' = Sorted(tiers)
    /\ stdout' = Append(stdout, VariantFieldnames \o TierHeaders(tiers))
    /\ pc' = "variants_loop"
    /\ UNCHANGED <<error, options, tiers, chroms, annRows, variants,
                   intersections>>

\* print_variant: hits[tier], the genes of the intersections in a tier
Hits(inter, t) == {iv.data[1] : iv \in {i \in inter : i.data[2] = t}}

\* a line whose variant fields come out in reverse order
OutputRowFieldsReversed(ts, fieldnames, row, inter) ==
    [k \in 1..Len(fieldnames) |-> row[fieldnames[Len(fieldnames) + 1 - k]]]
    \o Flatten([k \in 1..Len(ts) |->
         IF Hits(inter, ts[k]) # {}
         THEN <<"1", Join(";", SortedGenes(Hits(inter, ts[k])))>>
         ELSE <<"0", "">>])

\* print_variant: the line of one variant
OutputRow(ts, fieldnames, row, inter) ==
    [k \in 1..Len(fieldnames) |-> row[fieldnames[k]]]
    \o Flatten([k \in 1..Len(ts) |->
         IF Hits(inter, ts[k]) # {}
         THEN <<"1", Join(";", SortedGenes(Hits(inter, ts[k])))>>
         ELSE <<"0", "">>])

\* the window around one breakend of a cross-chromosome variant
WindowLow(pos, hw) == IF pos - hw > 0 THEN pos - hw ELSE 0

\* a window that reaches one position further
WindowHighOneMore(pos, hw) == pos + hw

WindowHigh(pos, hw) == pos + (hw - 1)

\* annotate_variants: the intersections of a row whose positions parse
Intersections(ch, hw, row) ==
    LET pos1 == ParseInt(row.pos1)
        pos2 == ParseInt(row.pos2)
    IN  IF row.chr1 = row.chr2
        THEN Lookup(ch, row.chr1, pos1, pos2)
        ELSE Lookup(ch, row.chr1, WindowLow(pos1, hw), WindowHigh(pos1, hw))
             \cup
             Lookup(ch, row.chr2, WindowLow(pos2, hw), WindowHigh(pos2, hw))

\* annotate_variants: the reader yields one more row
ProcessVariant ==
    /\ pc = "variants_loop"
    /\ Len(variants) < MaxVar
    /\ \E row \in VariantRows :
         /\ variants' = Append(variants, row)
         /\ IF ~IsIntText(row.pos1) \/ ~IsIntText(row.pos2)
            THEN /\ pc' = "failed"
                 /\ error' = "ValueError"
                 /\ UNCHANGED <<chroms, intersections, stdout>>
            ELSE /\ chroms' = ChromsAfterLookup(
                                  ChromsAfterLookup(chroms, row.chr1), row.chr2)
                 /\ intersections' = Intersections(chroms, half_window, row)
                 /\ stdout' = Append(stdout,
                        OutputRow(sorted_tiers, VariantFieldnames, row,
                                  Intersections(chroms, half_window, row)))
                 /\ UNCHANGED <<pc, error>>
    /\ UNCHANGED <<options, tiers, annRows, half_window, sorted_tiers>>

\* annotate_variants: the variant file is exhausted, main returns
VariantsEOF ==
    /\ pc = "variants_loop"
    /\ pc' = "done"
    /\ UNCHANGED <<error, options, tiers, chroms, annRows, half_window,
                   sorted_tiers, variants, intersections, stdout>>

Next ==
    \/ ParseArgs
    \/ ReadAnnotationRow
    \/ AnnotationsEOF
    \/ PrintHeader
    \/ ProcessVariant
    \/ VariantsEOF

Spec == Init /\ [][Next]_vars

TypeOK ==
    /\ pc \in {"parse_args", "read_annotations", "annotate_variants",
               "variants_loop", "done", "failed"}
    /\ error \in {"none", "ValueError"}
    /\ Len(annRows) <= MaxAnn
    /\ Len(variants) <= MaxVar

\* ------------------------------------------------- vocabulary of the claims
NF == Len(VariantFieldnames)

\* the k-th smallest member of a set of integers
KthSmallest(S, k) == CHOOSE t \in S : Cardinality({u \in S : u < t}) = k - 1

\* a row whose numeric fields all read as integers
AnnWellFormed(row) ==
    IsIntText(row.tier) /\ IsIntText(row.start) /\ IsIntText(row.end)

VarWellFormed(row) == IsIntText(row.pos1) /\ IsIntText(row.pos2)

\* the last variant row has been looked up and printed
Processed ==
    /\ pc \in {"variants_loop", "done"}
    /\ variants # <<>>

LastRow == variants[Len(variants)]

LastLine == stdout[Len(stdout)]

\* the intervals the index holds for a chromosome
TreeOf(chrom) == IF chrom \in DOMAIN chroms THEN chroms[chrom] ELSE {}

SameChrom == Processed /\ LastRow.chr1 = LastRow.chr2

CrossChrom == Processed /\ LastRow.chr1 # LastRow.chr2

Pos1 == ParseInt(LastRow.pos1)

Pos2 == ParseInt(LastRow.pos2)

\* the tier columns of a printed line, as a sequence of <<flag, genes>> pairs
TierPairs(line) ==
    [k \in 1..((Len(line) - NF) \div 2) |-> <<line[NF + 2 * k - 1], line[NF + 2 * k]>>]

\* ----------------------------------------------------------------------- C1
\* C1: the header lists the variant field names, then "tier{N}",
\* "tier{N} genes" for each tier N of the tier set in ascending order of N
\* (the order in which every data row carries its flag/gene-list pairs).
C1_HeaderTiersAscending ==
    stdout # <<>> =>
        /\ Len(stdout[1]) = NF + 2 * Cardinality(tiers)
        /\ \A k \in 1..NF : stdout[1][k] = VariantFieldnames[k]
        /\ \A k \in 1..Cardinality(tiers) :
             /\ stdout[1][NF + 2 * k - 1] = "tier" \o Str(KthSmallest(tiers, k))
             /\ stdout[1][NF + 2 * k] = "tier" \o Str(KthSmallest(tiers, k)) \o " genes"

\* ----------------------------------------------------------------------- C2
\* C2 as stated: a lookup of [x, x] returns every interval of that
\* chromosome whose padded end is exactly x, and a lookup of [s, e] every
\* interval whose padded end is exactly e.
C2_EndInclusive ==
    SameChrom /\ Pos1 <= Pos2 =>
        \A iv \in TreeOf(LastRow.chr1) : iv.end = Pos2 => iv \in intersections

\* C2 amended: the query [s, e] is inclusive on both ends and the indexed
\* interval is half-open: with s <= e the lookup returns exactly the
\* intervals with padded start <= e and s < padded end.  So [x, x] returns
\* an interval whose padded start is x and not one whose padded end is x,
\* and an interval ending exactly at e is returned iff s < e.
C2_QueryInclusiveIndexHalfOpen ==
    SameChrom /\ Pos1 <= Pos2 =>
        /\ \A iv \in TreeOf(LastRow.chr1) :
             iv \in intersections <=> (iv.begin <= Pos2 /\ Pos1 < iv.end)
        /\ \A iv \in TreeOf(LastRow.chr1) :
             /\ iv.begin = Pos2 => iv \in intersections
             /\ iv.end = Pos2 => (iv \in intersections <=> Pos1 < Pos2)
        /\ intersections \subseteq TreeOf(LastRow.chr1)

\* a point query [x, x] has met an interval whose padded end is x, and has
\* returned another interval of the chromosome but not that one
C2_Witness ==
    /\ SameChrom
    /\ Pos1 = Pos2
    /\ \E iv \in TreeOf(LastRow.chr1) : iv.end = Pos1 /\ iv \notin intersections
    /\ intersections # {}

\* ----------------------------------------------------------------------- C3
\* C3: every annotation row read with start S, end E >= S and padding
\* P >= 0 is indexed as the interval from S-P to E+P (no clamping); a lookup
\* of [S-P, E+P] returns the row's gene and a lookup of [S-P-1, S-P-1]
\* returns nothing when no other interval covers that position.
C3_PaddedRowIndexed ==
    \A i \in 1..Len(annRows) :
        LET row == annRows[i]
            S == ParseInt(row.start)
            E == ParseInt(row.end)
            P == options.pad
            iv == Interval(S - P, E + P, <<row.gene, ParseInt(row.tier)>>)
        IN  AnnWellFormed(row) /\ E >= S /\ P >= 0 =>
              /\ pc # "failed"
              /\ iv \in TreeOf(row.chrom)
              /\ SameChrom /\ LastRow.chr1 = row.chrom
                   /\ Pos1 = S - P /\ Pos2 = E + P => iv \in intersections
              /\ SameChrom /\ LastRow.chr1 = row.chrom
                   /\ Pos1 = S - P - 1 /\ Pos2 = S - P - 1
                   /\ (\A o \in TreeOf(row.chrom) : ~(o.begin <= Pos1 /\ Pos1 < o.end))
                   => intersections = {}

\* ----------------------------------------------------------------------- C4
\* C4: two variants on one chromosome that differ only in the order of
\* their two positions carry the same per-tier flags and gene lists.
C4_BreakendOrderIrrelevant ==
    pc \in {"variants_loop", "done"} =>
        \A i, j \in 1..Len(variants) :
            /\ variants[i].chr1 = variants[i].chr2
            /\ variants[j].chr1 = variants[i].chr1
            /\ variants[j].chr2 = variants[i].chr2
            /\ variants[j].pos1 = variants[i].pos2
            /\ variants[j].pos2 = variants[i].pos1
            => TierPairs(stdout[i + 1]) = TierPairs(stdout[j + 1])

\* ----------------------------------------------------------------------- C5
\* the window around a breakend position, from the window option
WinLow(pos) ==
    IF pos - (options.window \div 2) > 0 THEN pos - (options.window \div 2) ELSE 0

WinHigh(pos) == pos + (options.window \div 2) - 1

\* the intervals of a chromosome that share a position with [low, high]
Overlapping(chrom, low, high) ==
    {iv \in TreeOf(chrom) : low <= high /\ iv.begin <= high /\ low < iv.end}

\* C5: for a variant with chr1 # chr2 the hits are the union of the
\* intervals of chr1 overlapping [max(0, pos1 - h), pos1 + h - 1] and those
\* of chr2 overlapping [max(0, pos2 - h), pos2 + h - 1], h = window // 2; a
\* tier is flagged iff one of these hits has it; a chromosome without
\* annotations contributes nothing.
C5_CrossChromosomeUnion ==
    CrossChrom =>
        /\ intersections =
             Overlapping(LastRow.chr1, WinLow(Pos1), WinHigh(Pos1))
             \cup Overlapping(LastRow.chr2, WinLow(Pos2), WinHigh(Pos2))
        /\ \A k \in 1..Cardinality(tiers) :
             TierPairs(LastLine)[k][1] = "1" <=>
               \E iv \in intersections : iv.data[2] = KthSmallest(tiers, k)

\* a cross-chromosome variant is hit by an interval that reaches beyond the
\* window of its breakend, while its other chromosome has no annotations
C5_Witness ==
    /\ CrossChrom
    /\ LastRow.chr2 \notin DOMAIN chroms
    /\ \E iv \in intersections :
         iv.begin < WinLow(Pos1) /\ iv.end - 1 > WinHigh(Pos1)
    /\ \E k \in 1..Cardinality(tiers) : TierPairs(LastLine)[k][1] = "1"

\* ----------------------------------------------------------------------- C6
\* C6 as stated: when the run has failed on an unreadable numeric field of
\* an annotation row or of a variant row, nothing has been written.
C6_NoPartialOutput ==
    /\ pc = "failed"
    /\ \/ \E i \in 1..Len(annRows) : ~AnnWellFormed(annRows[i])
       \/ \E i \in 1..Len(variants) : ~VarWellFormed(variants[i])
    => stdout = <<>>

\* C6 amended: an annotation row with an unreadable tier, start or end
\* fails the run at that row with nothing written and no variant read; a
\* variant row with an unreadable pos1 or pos2 fails the run at that row,
\* after the header and one line for each variant before it, and with no
\* line for that row.
C6_FailsAtTheRow ==
    /\ \A i \in 1..Len(annRows) :
         ~AnnWellFormed(annRows[i]) =>
            /\ pc = "failed"
            /\ i = Len(annRows)
            /\ stdout = <<>>
            /\ variants = <<>>
    /\ \A i \in 1..Len(variants) :
         ~VarWellFormed(variants[i]) =>
            /\ pc = "failed"
            /\ i = Len(variants)
            /\ Len(stdout) = i

\* the run failed on its second variant row, the header and the first
\* variant's line being out already
C6_Witness ==
    /\ pc = "failed"
    /\ Len(variants) = 2
    /\ ~VarWellFormed(variants[2])
    /\ Len(stdout) = 2

\* ----------------------------------------------------------------------- C7
\* C7: a run whose padding or window is negative is rejected by parse_args:
\* it reads no row of either file and writes nothing.
C7_NegativeOptionsRejected ==
    pc # "parse_args" /\ (options.pad < 0 \/ options.window < 0) =>
        /\ pc = "failed"
        /\ annRows = <<>>
        /\ variants = <<>>
        /\ stdout = <<>>

\* ----------------------------------------------------------------------- C8
\* the genes of the last row's hits in tier t
GenesInTier(t) == {g \in Genes : \E iv \in intersections : iv.data = <<g, t>>}

\* seq lists the members of G once each, in ascending order of name
AscendingListOf(seq, G) ==
    /\ {seq[i] : i \in 1..Len(seq)} = G
    /\ \A i, j \in 1..Len(seq) : i < j => GeneRank(seq[i]) < GeneRank(seq[j])

\* C8: the line of a variant carries, for the k-th smallest tier of the tier
\* set, "1" and the ';'-joined ascending duplicate-free list of the genes
\* hit in that tier when there is one, and "0" and "" otherwise.
C8_TierAggregation ==
    Processed =>
        /\ Len(TierPairs(LastLine)) = Cardinality(tiers)
        /\ Len(LastLine) = NF + 2 * Cardinality(tiers)
        /\ \A k \in 1..Cardinality(tiers) :
             LET G == GenesInTier(KthSmallest(tiers, k))
             IN  IF G # {}
                 THEN /\ TierPairs(LastLine)[k][1] = "1"
                      /\ \E seq \in [1..Cardinality(G) -> Genes] :
                           /\ AscendingListOf(seq, G)
                           /\ TierPairs(LastLine)[k][2] = Join(";", seq)
                 ELSE TierPairs(LastLine)[k] = <<"0", "">>

\* two genes of one tier hit a variant, BRCA1 read after TP53
C8_Witness ==
    /\ Processed
    /\ Len(annRows) = 2
    /\ annRows[1].gene = "TP53"
    /\ annRows[2].gene = "BRCA1"
    /\ \E k \in 1..Cardinality(tiers) : TierPairs(LastLine)[k] = <<"1", "BRCA1;TP53">>

\* ----------------------------------------------------------------------- C9
\* C9: while the variant rows are well-formed, stdout holds the header and
\* then one line per variant read, the i-th line for the i-th variant: its
\* field values in the order of the field names, then the tier pairs.
C9_OneRowPerVariantInOrder ==
    pc \in {"variants_loop", "done"} =>
        /\ Len(stdout) = 1 + Len(variants)
        /\ \A i \in 1..Len(variants) :
             /\ Len(stdout[i + 1]) = NF + 2 * Cardinality(tiers)
             /\ \A k \in 1..NF : stdout[i + 1][k] = variants[i][VariantFieldnames[k]]

\* two different variants, the second equal to neither, have been printed
C9_Witness ==
    /\ pc = "done"
    /\ Len(variants) = 2
    /\ variants[1] # variants[2]
    /\ stdout[2] # stdout[3]
    /\ tiers # {}

\* ---------------------------------------------------------------------- C10
\* C10: a step that prints or reads a variant row is taken after
\* read_annotations has returned, and no step taken after that changes the
\* index or the tier set.
C10_IndexBuiltThenReadOnly ==
    [][/\ (stdout' # stdout \/ variants' # variants)
            => pc \notin {"parse_args", "read_annotations"}
       /\ pc \notin {"parse_args", "read_annotations"}
            => chroms' = chroms /\ tiers' = tiers]_vars

\* variants on both an annotated and an unannotated chromosome have been
\* looked up in a non-empty index
C10_Witness ==
    /\ pc = "done"
    /\ Len(annRows) = 2
    /\ DOMAIN chroms = {"chr1"}
    /\ Len(variants) = 2
    /\ variants[1].chr2 = "chr2"
    /\ intersections # {}
====
